---- MODULE Spec2Model ----
(***************************************************************************)
(* A model of the SMPP message processors of vumi                          *)
(* (vumi/transports/smpp/processors/default.py): delivery reports,         *)
(* inbound decoding with multipart reassembly over a redis buffer, USSD    *)
(* session handling and the outbound submit policy.                        *)
(*                                                                         *)
(* Byte strings are sequences of octets (0..255); a hex string is the byte *)
(* string of its ASCII digits, as in Python 2.  A Python value that may be *)
(* a byte string, a unicode string or None is a record [kind, data].       *)
(***************************************************************************)
EXTENDS Integers, Sequences, FiniteSets, TLC

(***************************************************************************)
(* Bounds of the model.                                                    *)
(***************************************************************************)
\* largest total_number of a multipart message
MaxTotal == 3
\* number of multipart PDUs delivered in one behaviour
MaxPdus == 4
\* number of multipart PDUs delivered over interleaving connections
MaxRacingPdus == 3
\* number of multipart handlers in flight at once when connections interleave
MaxInFlight == 2
\* number of multipart PDUs delivered when the store may fail and the caller
\* may cancel
MaxFaultyPdus == 2
\* number of children passed to ElementMaker.element
MaxChildren == 4

VARIABLES
    data_coding_overrides,  \* config.data_coding_overrides
    total,      \* total_number of the reassembly key the fragments belong to
    redis,      \* the value stored under redis_key: [exists, value]
    handlers,   \* one handle_deliver_sm_multipart call per delivered PDU
    received,   \* history: part index -> payload last delivered since the
                \* key was last deleted
    inbound,    \* calls of transport.handle_raw_inbound_message, in order
    ussd_pdu,   \* the USSD PDU passed to handle_ussd_pdu, NoUssdPdu before
    submit_config,  \* the SubmitShortMessageProcessor's configuration
    message,    \* the message passed to handle_outbound_message
    submitted,  \* calls of the protocol's submit primitives, in order
    submit_result,  \* "none", "returned" or "error"
    status_mapping, \* config.delivery_report_status_mapping
    report,     \* the input of the delivery report entry point called
    reports,    \* calls of transport.handle_delivery_report, in order
    verdict,    \* the deferred the entry point returned
    mapped,     \* the last call of delivery_status: [called, state, status]
    dcs_call,   \* the last call of dcs_decode: [called, obj, data_coding,
                \* result]
    sms_pdu,    \* the PDU passed to handle_short_message_pdu, NoSmsPdu before
    sms_result, \* "none", "waiting", "true" or "error"
    store_ops,  \* per handler, the store operations it has issued:
                \* [gets, writes], a write being a set or a delete
    store_errors,   \* per handler, the error the store raised to it, or
                \* NoError
    xml_elem,   \* the element ElementMaker.element is building
    xml_handled,    \* history: the children handled so far, in order
    xml_result  \* "none", "building" or "error"

multipartVars ==
    <<total, redis, handlers, received, store_ops, store_errors>>
ussdVars == <<ussd_pdu>>
submitVars == <<submit_config, message, submitted, submit_result>>
reportVars == <<status_mapping, report, reports, verdict>>
callVars == <<mapped, dcs_call, sms_pdu, sms_result>>
xmlVars == <<xml_elem, xml_handled, xml_result>>

vars == <<data_coding_overrides, total, redis, handlers, received, inbound,
          ussd_pdu, submit_config, message, submitted, submit_result,
          status_mapping, report, reports, verdict, mapped, dcs_call,
          sms_pdu, sms_result, store_ops, store_errors, xml_elem,
          xml_handled, xml_result>>

(***************************************************************************)
(* Python values.                                                          *)
(***************************************************************************)
Str(bytes) == [kind |-> "str", data |-> bytes]
Unicode(chars) == [kind |-> "unicode", data |-> chars]
PyNone == [kind |-> "none", data |-> <<>>]
\* an exception leaving the call, in the place of the value
Raised == [kind |-> "raised", data |-> <<>>]

RECURSIVE Concat(_)
\* ''.join(seqs)
Concat(seqs) ==
    IF seqs = <<>> THEN <<>> ELSE Head(seqs) \o Concat(Tail(seqs))

(***************************************************************************)
(* str.encode('hex') and str.decode('hex').                                *)
(***************************************************************************)
\* the ASCII codes of 0123456789abcdef
HexDigits ==
    <<48, 49, 50, 51, 52, 53, 54, 55, 56, 57, 97, 98, 99, 100, 101, 102>>

\* the value of one hexadecimal digit
HexVal(c) == (CHOOSE i \in 1..16 : HexDigits[i] = c) - 1

RECURSIVE EncodeHex(_)
\* bytes.encode('hex'): two lower-case digits per octet, high nibble first
EncodeHex(bytes) ==
    IF bytes = <<>> THEN <<>>
    ELSE <<HexDigits[(Head(bytes) \div 16) + 1],
           HexDigits[(Head(bytes) % 16) + 1]>> \o EncodeHex(Tail(bytes))

RECURSIVE DecodeHex(_)
\* text.decode('hex'): one octet per pair of digits
DecodeHex(chars) ==
    IF Len(chars) < 2 THEN <<>>
    ELSE <<HexVal(chars[1]) * 16 + HexVal(chars[2])>>
         \o DecodeHex(SubSeq(chars, 3, Len(chars)))

(***************************************************************************)
(* DeliverShortMessageProcessor: data coding map and dcs_decode.           *)
(***************************************************************************)
\* self.data_coding_map as built by __init__, before the overrides
BaseDataCodingMap ==
    (1 :> "ascii") @@ (3 :> "latin1") @@ (5 :> "iso2022_jp")
    @@ (6 :> "iso8859_5") @@ (7 :> "iso8859_8") @@ (8 :> "utf-16be")
    @@ (9 :> "shift_jis") @@ (10 :> "iso2022_jp")

\* self.data_coding_map.update(self.config.data_coding_overrides)
DataCodingMap(overrides) ==
    [dc \in DOMAIN BaseDataCodingMap \cup DOMAIN overrides |->
        IF dc \in DOMAIN overrides THEN overrides[dc]
        ELSE BaseDataCodingMap[dc]]

RECURSIVE Utf16BeChars(_)
\* the code units of a big-endian two-octet encoding
Utf16BeChars(bytes) ==
    IF Len(bytes) < 2 THEN <<>>
    ELSE <<bytes[1] * 256 + bytes[2]>>
         \o Utf16BeChars(SubSeq(bytes, 3, Len(bytes)))

\* self.codec.decode(obj, codec_name): [ok, chars]; ok = FALSE stands for
\* UnicodeDecodeError
CodecDecode(bytes, codec_name) ==
    CASE codec_name = "ascii" ->
            [ok |-> \A i \in 1..Len(bytes) : bytes[i] < 128, chars |-> bytes]
      [] codec_name = "utf-16be" ->
            [ok |-> Len(bytes) % 2 = 0, chars |-> Utf16BeChars(bytes)]
      [] OTHER -> [ok |-> TRUE, chars |-> bytes]

\* a dcs_decode without the except clause of lines 200-204
dcs_decode_uncaught(obj, data_coding, data_coding_map) ==
    IF data_coding \notin DOMAIN data_coding_map THEN obj
    ELSE IF obj.kind = "none" THEN obj
    ELSE LET decoded == CodecDecode(obj.data, data_coding_map[data_coding])
         IN  IF decoded.ok THEN Unicode(decoded.chars) ELSE Raised

\* dcs_decode(obj, data_coding) with the processor's data_coding_map
dcs_decode(obj, data_coding, data_coding_map) ==
    IF data_coding \notin DOMAIN data_coding_map THEN obj
    ELSE IF obj.kind = "none" THEN obj
    ELSE LET decoded == CodecDecode(obj.data, data_coding_map[data_coding])
         IN  IF decoded.ok THEN Unicode(decoded.chars) ELSE obj

(***************************************************************************)
(* The multipart buffer.  MultipartMessage, detect_multipart and           *)
(* multipart_key come from smpp.pdu_inspector; the buffer is a function    *)
(* from part index to part.                                                *)
(***************************************************************************)
FromMsisdn == "from_msisdn"
ToMsisdn == "to_msisdn"

\* detect_multipart(pdu): the part carried by a multipart PDU
detect_multipart(pdu) ==
    [part_number |-> pdu.part_number,
     total_number |-> pdu.total_number,
     part_message |-> pdu.short_message]

\* MultipartMessage.add_pdu: the part is stored under its index
add_pdu(multi, pdu) ==
    [i \in DOMAIN multi \cup {pdu.part_number} |->
        IF i = pdu.part_number THEN detect_multipart(pdu) ELSE multi[i]]

NotCompleted == [completed |-> FALSE, message |-> <<>>]

\* MultipartMessage.get_completed: None until every index 1..total_number
\* is present, then the payloads joined in ascending index order
get_completed(multi, total_number) ==
    IF \A i \in 1..total_number : i \in DOMAIN multi
    THEN [completed |-> TRUE,
          message |-> Concat([i \in 1..total_number |->
                                 multi[i].part_message])]
    ELSE NotCompleted

\* the decimal string json.dumps writes for an integer key
JsonKey(i) == ToString(i)

\* int(k) for a key read back from JSON (MultipartMessage.__init__)
IntKey(k) == CHOOSE i \in 0..(MaxTotal + 1) : JsonKey(i) = k

\* MultipartMessage(array): keys converted back to integers
MultipartMessage(array) ==
    [i \in {IntKey(k) : k \in DOMAIN array} |-> array[JsonKey(i)]]

\* a _hex_for_redis that encodes every part twice
_hex_for_redis_twice(data_dict) ==
    [index \in DOMAIN data_dict |->
        [data_dict[index] EXCEPT
            !.part_message =
                EncodeHex(EncodeHex(data_dict[index].part_message))]]

\* _hex_for_redis: every part_message hex-encoded
_hex_for_redis(data_dict) ==
    [index \in DOMAIN data_dict |->
        [data_dict[index] EXCEPT
            !.part_message = EncodeHex(data_dict[index].part_message)]]

\* an _unhex_from_redis that leaves the stored hex text as it is
_unhex_from_redis_raw(data_dict) == data_dict

\* _unhex_from_redis: every part_message hex-decoded
_unhex_from_redis(data_dict) ==
    [index \in DOMAIN data_dict |->
        [data_dict[index] EXCEPT
            !.part_message = DecodeHex(data_dict[index].part_message)]]

\* json.dumps(data_dict): an object whose keys are strings
JsonDumps(data_dict) ==
    [k \in {JsonKey(i) : i \in DOMAIN data_dict} |-> data_dict[IntKey(k)]]

Absent == [exists |-> FALSE, value |-> <<>>]

\* a load_multipart_message that always starts from an empty buffer
load_multipart_message_empty(reply) ==
    MultipartMessage(_unhex_from_redis(<<>>))

\* load_multipart_message applied to the reply of redis.get
load_multipart_message(reply) ==
    LET value == IF reply.exists THEN reply.value ELSE <<>>
    IN  MultipartMessage(_unhex_from_redis(value))

\* the value save_multipart_message passes to redis.set
save_multipart_message(multipart_message) ==
    [exists |-> TRUE, value |-> JsonDumps(_hex_for_redis(multipart_message))]

(***************************************************************************)
(* Inputs of the inbound handlers.                                         *)
(***************************************************************************)
\* short_message values a PDU may carry
PartPayloads == {<<10>>, <<233, 65>>}
\* data_coding values a PDU may carry: unmapped, ASCII
PartDataCodings == {0, 1}
\* the overrides a processor may be configured with
OverrideConfigs == {<<>>, (0 :> "latin1")}

(***************************************************************************)
(* Calls of dcs_decode, and handle_short_message_pdu.                      *)
(***************************************************************************)
\* no call of dcs_decode has been made
NoDecodeCall ==
    [called |-> FALSE, obj |-> PyNone, data_coding |-> 0, result |-> PyNone]

\* the objects and data codings dcs_decode is called with
DecodeObjects ==
    {PyNone, Str(<<>>), Str(<<10>>), Str(<<65, 66>>), Str(<<233, 65>>),
     Str(<<0, 65, 0>>)}
DecodeDataCodings == 0..10

\* a call of dcs_decode(obj, data_coding) on the processor
DcsDecodeCall(obj, data_coding) ==
    /\ dcs_call' = [called |-> TRUE, obj |-> obj,
                    data_coding |-> data_coding,
                    result |-> dcs_decode(obj, data_coding,
                                  DataCodingMap(data_coding_overrides))]
    /\ UNCHANGED <<xmlVars,
                   mapped, sms_pdu, sms_result, data_coding_overrides,
                   multipartVars, inbound, ussdVars, submitVars, reportVars>>

NoPayload == [present |-> FALSE, value |-> <<>>]
SomePayload(hex) == [present |-> TRUE, value |-> hex]

\* a deliver_sm PDU that is neither a receipt, multipart nor USSD
NoSmsPdu ==
    [present |-> FALSE, short_message |-> PyNone,
     message_payload |-> NoPayload, data_coding |-> 0]
SmsPdus ==
    [present : {TRUE},
     short_message : {PyNone, Str(<<>>), Str(<<10>>), Str(<<65, 66>>),
                      Str(<<233, 65>>)},
     message_payload : {NoPayload, SomePayload(EncodeHex(<<65, 66>>)),
                        SomePayload(EncodeHex(<<233, 65>>))},
     data_coding : {0, 1, 3, 8}]

\* decode_pdus(pdus): the content parts of the PDUs
decode_pdus(pdus, data_coding_map) ==
    [i \in 1..Len(pdus) |->
        LET short_message ==
                IF pdus[i].message_payload.present
                THEN Str(DecodeHex(pdus[i].message_payload.value))
                ELSE pdus[i].short_message
        IN  dcs_decode(short_message, pdus[i].data_coding, data_coding_map)]

\* u''.join(content_parts): a str part is decoded as ASCII on the way, which
\* raises UnicodeDecodeError on an octet above 127; a None part raises
\* TypeError
UnicodeJoin(content_parts) ==
    IF \E i \in 1..Len(content_parts) :
            \/ content_parts[i].kind = "none"
            \/ /\ content_parts[i].kind = "str"
               /\ \E j \in 1..Len(content_parts[i].data) :
                        content_parts[i].data[j] > 127
    THEN Raised
    ELSE Unicode(Concat([i \in 1..Len(content_parts) |->
                            content_parts[i].data]))

\* the inbound message handle_short_message_content hands to the transport
\* for the PDU
PlainInbound(content) ==
    [source_addr |-> FromMsisdn, destination_addr |-> ToMsisdn,
     short_message |-> content, message_type |-> "absent",
     session_event |-> "absent", session_info |-> <<>>]

\* handle_short_message_pdu(pdu), up to the deferred of the transport
handle_short_message_pdu(pdu) ==
    LET content_parts ==
            decode_pdus(<<pdu>>, DataCodingMap(data_coding_overrides))
        content == UnicodeJoin(content_parts)
    IN  /\ sms_pdu' = pdu
        /\ IF content.kind = "raised"
           THEN /\ sms_result' = "error"
                /\ inbound' = inbound
           ELSE /\ inbound' = Append(inbound, PlainInbound(content))
                /\ sms_result' = "waiting"
        /\ UNCHANGED <<xmlVars,
                       mapped, dcs_call, data_coding_overrides, multipartVars,
                       ussdVars, submitVars, reportVars>>

\* the deferred of handle_short_message_content fires: the callback added
\* at line 241 turns its result into True
SmsDispatchReply ==
    /\ sms_result = "waiting"
    /\ sms_result' = "true"
    /\ UNCHANGED <<xmlVars, mapped, dcs_call, sms_pdu, data_coding_overrides,
                   multipartVars, inbound, ussdVars, submitVars, reportVars>>

(***************************************************************************)
(* xmlutil.ElementMaker: an ElementTree element is its text and the list   *)
(* of its children; a child is an element with a tag and a tail, or        *)
(* whatever else was assigned into the list.                               *)
(***************************************************************************)
\* etree.Element(tag): no text, no children
MakeElement(tag) == [tag |-> tag, text |-> PyNone, children |-> <<>>]
NoElement == MakeElement("")

\* a child element as it stands in its parent's list
ChildElement(tag) == [kind |-> "element", tag |-> tag, tail |-> PyNone]
\* a text child
TextChild(chars) == [kind |-> "str", data |-> chars]

\* the children passed to ElementMaker.element: the texts a and b, the
\* elements x and y
XmlChildren ==
    {TextChild(<<97>>), TextChild(<<98>>), ChildElement("x"),
     ChildElement("y")}

\* value or '' for a text or tail
OrEmpty(value) == IF value.kind = "none" THEN <<>> ELSE value.data

\* TRUE when _add_text raises: the last item of the list is a str, which
\* has no tail
AddTextRaises(elem) ==
    /\ Len(elem.children) > 0
    /\ elem.children[Len(elem.children)].kind # "element"

\* _add_text(elem, text): line 226 assigns the new tail to elem[-1], the
\* last item of the list, line 228 assigns to elem.text
_add_text(elem, text) ==
    IF Len(elem.children) > 0
    THEN [elem EXCEPT !.children[Len(elem.children)] =
                Str(OrEmpty(elem.children[Len(elem.children)].tail) \o text)]
    ELSE [elem EXCEPT !.text = Str(OrEmpty(elem.text) \o text)]

\* ElementMaker.element up to the loop over the children
StartElement ==
    /\ xml_result = "none"
    /\ xml_elem' = MakeElement("parent")
    /\ xml_result' = "building"
    /\ UNCHANGED <<callVars, data_coding_overrides, multipartVars, inbound,
                   ussdVars, submitVars, reportVars, xml_handled>>

\* _handle_child(parent, child) for the next child
HandleChild(child) ==
    /\ xml_result = "building"
    /\ Len(xml_handled) < MaxChildren
    /\ xml_handled' = Append(xml_handled, child)
    /\ IF child.kind = "element"
       THEN /\ xml_elem' = [xml_elem EXCEPT
                                !.children = Append(@, child)]
            /\ xml_result' = xml_result
       ELSE IF AddTextRaises(xml_elem)
       THEN /\ xml_elem' = xml_elem
            /\ xml_result' = "error"
       ELSE /\ xml_elem' = _add_text(xml_elem, child.data)
            /\ xml_result' = xml_result
    /\ UNCHANGED <<callVars, data_coding_overrides, multipartVars, inbound,
                   ussdVars, submitVars, reportVars>>

(***************************************************************************)
(* USSD session info: int(x, 16), "%04x" % n and n & mask.                 *)
(***************************************************************************)
HexChars == {HexDigits[i] : i \in 1..16}

RECURSIVE ParseHex(_)
\* int(chars, 16)
ParseHex(chars) ==
    IF chars = <<>> THEN 0
    ELSE ParseHex(SubSeq(chars, 1, Len(chars) - 1)) * 16
         + HexVal(chars[Len(chars)])

RECURSIVE FormatHex(_)
\* "%x" % n: the hex digits of n, without leading zeros
FormatHex(n) ==
    IF n < 16 THEN <<HexDigits[n + 1]>>
    ELSE Append(FormatHex(n \div 16), HexDigits[(n % 16) + 1])

RECURSIVE ZeroPad(_, _)
\* the field width of %04x: zeros on the left up to width characters
ZeroPad(chars, width) ==
    IF Len(chars) >= width THEN chars
    ELSE ZeroPad(<<HexDigits[1]>> \o chars, width)

\* "%04x" % n
FormatHex04(n) == ZeroPad(FormatHex(n), 4)

RECURSIVE BitAnd(_, _)
\* a & b on non-negative integers
BitAnd(a, b) ==
    IF a = 0 \/ b = 0 THEN 0
    ELSE (a % 2) * (b % 2) + 2 * BitAnd(a \div 2, b \div 2)

(***************************************************************************)
(* handle_deliver_sm_ussd.                                                 *)
(***************************************************************************)
\* a session event that ignores the end-session flag
UssdSessionEvent_no_flag(service_op, its_session_info) ==
    IF service_op = "01" THEN "new"
    ELSE IF service_op = "11" THEN "close"
    ELSE IF service_op \in {"02", "12"} THEN "continue"
    ELSE "close"

\* lines 291-302 and 312-318: the session_event of a USSD PDU
UssdSessionEvent(service_op, its_session_info) ==
    LET by_service_op ==
            IF service_op = "01" THEN "new"
            ELSE IF service_op = "11" THEN "close"
            ELSE IF service_op \in {"02", "12"} THEN "continue"
            ELSE "close"
        its_session_number == ParseHex(its_session_info)
        end_session == its_session_number % 2 # 0
    IN  IF end_session THEN "close" ELSE by_service_op

\* a session_info that keeps the end-session flag
UssdSessionInfo_unmasked(its_session_info) ==
    FormatHex04(ParseHex(its_session_info))

\* a session_info masked with 0xfe instead of 0xfffe
UssdSessionInfo_octet_mask(its_session_info) ==
    FormatHex04(BitAnd(ParseHex(its_session_info), 254))

\* lines 312-314: the session_info of a USSD PDU
UssdSessionInfo(its_session_info) ==
    FormatHex04(BitAnd(ParseHex(its_session_info), 65534))

\* lines 320-328: the call of handle_short_message_content for a USSD PDU
UssdInbound(pdu, data_coding_map) ==
    [source_addr |-> FromMsisdn, destination_addr |-> ToMsisdn,
     short_message |-> dcs_decode(Str(pdu.short_message), pdu.data_coding,
                                  data_coding_map),
     message_type |-> "ussd",
     session_event |-> UssdSessionEvent(pdu.ussd_service_op,
                                        pdu.its_session_info),
     session_info |-> UssdSessionInfo(pdu.its_session_info)]

NoUssdPdu ==
    [ussd_service_op |-> "", its_session_info |-> <<>>,
     short_message |-> <<>>, data_coding |-> 0]

\* every value of the two octets of its_session_info, as four hex digits
AllSessionInfos ==
    {<<a, b, c, d>> : a \in HexChars, b \in HexChars,
                      c \in HexChars, d \in HexChars}

\* 0000, 0001, 0010, 0011, fffe, ffff
SomeSessionInfos ==
    {<<48, 48, 48, 48>>, <<48, 48, 48, 49>>, <<48, 48, 49, 48>>,
     <<48, 48, 49, 49>>, <<102, 102, 102, 101>>, <<102, 102, 102, 102>>}

\* values of ussd_service_op: the four the handler names and two others
ServiceOps == {"01", "02", "11", "12", "00", "21"}

\* USSD PDUs: every its_session_info with one service_op, and some
\* its_session_info with every service_op, payload and data coding
UssdPdus ==
    [ussd_service_op : {"02"}, its_session_info : AllSessionInfos,
     short_message : {<<10>>}, data_coding : {1}]
    \cup [ussd_service_op : ServiceOps, its_session_info : SomeSessionInfos,
          short_message : PartPayloads, data_coding : PartDataCodings]

(***************************************************************************)
(* SubmitShortMessageProcessor.                                            *)
(***************************************************************************)
\* the defaults of SubmitShortMessageProcessorConfig
DefaultSubmitConfig ==
    [submit_sm_encoding |-> "utf-8", submit_sm_data_coding |-> 0,
     send_long_messages |-> FALSE, send_multipart_sar |-> FALSE,
     send_multipart_udh |-> FALSE]

\* a post_validate that rejects only three set flags
post_validate_all_three(config) ==
    LET long_message_params ==
            {"send_long_messages", "send_multipart_sar",
             "send_multipart_udh"}
        set_params == {param \in long_message_params : config[param]}
    IN  ~(Cardinality(set_params) > 2)

\* post_validate: TRUE when it raises no configuration error
post_validate(config) ==
    LET long_message_params ==
            {"send_long_messages", "send_multipart_sar",
             "send_multipart_udh"}
        set_params == {param \in long_message_params : config[param]}
    IN  ~(Cardinality(set_params) > 1)

\* unicode.encode('ascii'): [ok, bytes]; ok = FALSE stands for
\* UnicodeEncodeError
EncodeAscii(chars) ==
    [ok |-> \A i \in 1..Len(chars) : chars[i] < 128, bytes |-> chars]

RECURSIVE EncodeUtf8(_)
\* unicode.encode('utf-8') for code points below 0x10000
EncodeUtf8(chars) ==
    IF chars = <<>> THEN <<>>
    ELSE LET c == Head(chars)
         IN  (IF c < 128 THEN <<c>>
              ELSE IF c < 2048 THEN <<192 + (c \div 64), 128 + (c % 64)>>
              ELSE <<224 + (c \div 4096), 128 + ((c \div 64) % 64),
                     128 + (c % 64)>>)
             \o EncodeUtf8(Tail(chars))

\* text.encode(self.config.submit_sm_encoding): [ok, bytes]
EncodeText(chars, encoding) ==
    CASE encoding = "utf-8" -> [ok |-> TRUE, bytes |-> EncodeUtf8(chars)]
      [] encoding = "ascii" -> EncodeAscii(chars)
      [] OTHER ->
            [ok |-> \A i \in 1..Len(chars) : chars[i] < 256, bytes |-> chars]

NoSessionInfo == [present |-> FALSE, value |-> <<>>]
SomeSessionInfo(chars) == [present |-> TRUE, value |-> chars]

\* an its_session_info formatted without the zero padding
SubmitSessionInfo_unpadded(transport_metadata, session_event) ==
    LET continue_session == session_event # "close"
        session_info == IF transport_metadata.present
                        THEN transport_metadata.value
                        ELSE <<48, 48, 48, 48>>
    IN  FormatHex(ParseHex(session_info)
                  + (IF ~continue_session THEN 1 ELSE 0))

\* lines 404-411: the its_session_info of an outbound USSD message
SubmitSessionInfo(transport_metadata, session_event) ==
    LET continue_session == session_event # "close"
        session_info == IF transport_metadata.present
                        THEN transport_metadata.value
                        ELSE <<48, 48, 48, 48>>
    IN  FormatHex04(ParseHex(session_info)
                    + (IF ~continue_session THEN 1 ELSE 0))

\* optional parameters that are set whatever the transport type
OptionalParameters_any_transport(msg) ==
    ("ussd_service_op" :> <<48, 50>>)
    @@ ("its_session_info" :>
            SubmitSessionInfo(msg.transport_metadata, msg.session_event))

\* lines 401-412: optional_parameters, a dict
OptionalParameters(msg) ==
    IF msg.transport_type = "ussd"
    THEN ("ussd_service_op" :> <<48, 50>>)
         @@ ("its_session_info" :>
                SubmitSessionInfo(msg.transport_metadata, msg.session_event))
    ELSE <<>>

\* lines 414-444: the protocol primitive the configuration selects
SubmitPrimitive(config) ==
    IF config.send_long_messages THEN "submit_sm_long"
    ELSE IF config.send_multipart_sar THEN "submit_csm_sar"
    ELSE IF config.send_multipart_udh THEN "submit_csm_udh"
    ELSE "submit_sm"

\* the arguments of the protocol call, as evaluated before the call
SubmitCall(msg, config) ==
    [primitive |-> SubmitPrimitive(config),
     content_keyword |-> IF config.send_long_messages THEN "long_message"
                         ELSE "short_message",
     vumi_message_id |-> msg.message_id,
     destination_addr |-> EncodeAscii(msg.to_addr).bytes,
     short_message |-> EncodeText(msg.content,
                                  config.submit_sm_encoding).bytes,
     data_coding |-> config.submit_sm_data_coding,
     source_addr |-> EncodeAscii(msg.from_addr).bytes,
     optional_parameters |-> OptionalParameters(msg)]

\* an evaluation that encodes the source address leniently
SubmitArgumentsEncode_lenient_source(msg, config) ==
    /\ EncodeAscii(msg.to_addr).ok
    /\ EncodeText(msg.content, config.submit_sm_encoding).ok

\* TRUE when evaluating the arguments raises no encoding error
SubmitArgumentsEncode(msg, config) ==
    /\ EncodeAscii(msg.to_addr).ok
    /\ EncodeText(msg.content, config.submit_sm_encoding).ok
    /\ EncodeAscii(msg.from_addr).ok

NoMessage ==
    [to_addr |-> <<>>, from_addr |-> <<>>, content |-> <<>>,
     message_id |-> "", session_event |-> "", transport_type |-> "",
     transport_metadata |-> NoSessionInfo]

\* handle_outbound_message(message, protocol)
handle_outbound_message(msg) ==
    /\ message' = msg
    /\ IF SubmitArgumentsEncode(msg, submit_config)
       THEN /\ submitted' = Append(submitted, SubmitCall(msg, submit_config))
            /\ submit_result' = "returned"
       ELSE /\ submitted' = submitted
            /\ submit_result' = "error"
    /\ UNCHANGED <<xmlVars, callVars,
                   data_coding_overrides, multipartVars, inbound, ussdVars,
                   submit_config, reportVars>>

\* an address of ASCII digits and an address with a non-ASCII character
AsciiAddr == <<50, 55, 56>>
NonAsciiAddr == <<50, 233>>
\* session_event values of an outbound message: None, resume, close
SessionEvents == {"none", "resume", "close"}

\* outbound USSD messages carrying every two-octet session_info, or none
UssdMessages ==
    [to_addr : {AsciiAddr}, from_addr : {AsciiAddr}, content : {<<72, 233>>},
     message_id : {"message-id"}, session_event : SessionEvents,
     transport_type : {"ussd"},
     transport_metadata :
        {NoSessionInfo} \cup {SomeSessionInfo(x) : x \in AllSessionInfos}]

\* the configurations a SubmitShortMessageProcessor may be given: every
\* combination of the long-message flags, three encodings, two data codings
SubmitConfigs ==
    [submit_sm_encoding : {"utf-8", "ascii", "latin1"},
     submit_sm_data_coding : {0, 3},
     send_long_messages : BOOLEAN, send_multipart_sar : BOOLEAN,
     send_multipart_udh : BOOLEAN]

\* outbound messages: SMS and USSD, addresses with and without a non-ASCII
\* character, content Hi, H e-acute and the euro sign
OutboundMessages ==
    [to_addr : {AsciiAddr, NonAsciiAddr},
     from_addr : {AsciiAddr, NonAsciiAddr},
     content : {<<72, 105>>, <<72, 233>>, <<8364>>},
     message_id : {"message-id"}, session_event : SessionEvents,
     transport_type : {"sms", "ussd"},
     transport_metadata :
        {NoSessionInfo, SomeSessionInfo(<<48, 48, 97, 50>>)}]

(***************************************************************************)
(* DeliveryReportProcessor.                                                *)
(***************************************************************************)
\* a default mapping without the entries of lines 34-36
DELIVERY_REPORT_STATUS_MAPPING_no_outputs ==
    ("ENROUTE" :> "pending") @@ ("DELIVERED" :> "delivered")
    @@ ("EXPIRED" :> "failed") @@ ("DELETED" :> "failed")
    @@ ("UNDELIVERABLE" :> "failed") @@ ("ACCEPTED" :> "delivered")
    @@ ("UNKNOWN" :> "pending") @@ ("REJECTED" :> "failed")
    @@ ("DELIVRD" :> "delivered") @@ ("REJECTD" :> "failed")
    @@ ("0" :> "delivered")

\* DeliveryReportProcessorConfig.DELIVERY_REPORT_STATUS_MAPPING
DELIVERY_REPORT_STATUS_MAPPING ==
    ("delivered" :> "delivered") @@ ("failed" :> "failed")
    @@ ("pending" :> "pending")
    @@ ("ENROUTE" :> "pending") @@ ("DELIVERED" :> "delivered")
    @@ ("EXPIRED" :> "failed") @@ ("DELETED" :> "failed")
    @@ ("UNDELIVERABLE" :> "failed") @@ ("ACCEPTED" :> "delivered")
    @@ ("UNKNOWN" :> "pending") @@ ("REJECTED" :> "failed")
    @@ ("DELIVRD" :> "delivered") @@ ("REJECTD" :> "failed")
    @@ ("0" :> "delivered")

\* DeliveryReportProcessor.STATUS_MAP
STATUS_MAP ==
    (1 :> "ENROUTE") @@ (2 :> "DELIVERED") @@ (3 :> "EXPIRED")
    @@ (4 :> "DELETED") @@ (5 :> "UNDELIVERABLE") @@ (6 :> "ACCEPTED")
    @@ (7 :> "UNKNOWN") @@ (8 :> "REJECTED")

NoMapping == [present |-> FALSE, value |-> <<>>]
SomeMapping(mapping) == [present |-> TRUE, value |-> mapping]

\* the delivery_report_status_mapping a transport configuration may
\* supply: none, one with the canonical statuses as values, and one with
\* another value
SuppliedMappings ==
    {NoMapping,
     SomeMapping(("DELIVRD" :> "delivered") @@ ("UNDELIV" :> "failed")),
     SomeMapping(("DELIVRD" :> "ok") @@ ("DELIVERED" :> "ok")),
     SomeMapping(<<>>),
     SomeMapping(("DELIVRD" :> "failed") @@ DELIVERY_REPORT_STATUS_MAPPING)}

\* the value of the ConfigDict field: the supplied dict, or the default
\* when the configuration has none
delivery_report_status_mapping(supplied) ==
    IF supplied.present THEN supplied.value
    ELSE DELIVERY_REPORT_STATUS_MAPPING

\* a delivery_status that takes an unknown state for a failure
delivery_status_default_failed(state, mapping) ==
    IF state \in DOMAIN mapping THEN mapping[state] ELSE "failed"

\* delivery_status(state)
delivery_status(state, mapping) ==
    IF state \in DOMAIN mapping THEN mapping[state] ELSE "pending"

NoId == [present |-> FALSE, value |-> ""]
SomeId(id) == [present |-> TRUE, value |-> id]
NoState == [present |-> FALSE, value |-> 0]
SomeState(state) == [present |-> TRUE, value |-> state]

\* a test for missing parameters that takes '' and 0 for missing
ParametersMissing_falsy(pdu_opts) ==
    \/ ~pdu_opts.receipted_message_id.present
    \/ pdu_opts.receipted_message_id.value = ""
    \/ ~pdu_opts.message_state.present
    \/ pdu_opts.message_state.value = 0

\* line 93: receipted_message_id is None or message_state is None
ParametersMissing(pdu_opts) ==
    \/ ~pdu_opts.receipted_message_id.present
    \/ ~pdu_opts.message_state.present

\* the stat tokens of the receipts, as characters: DELIVRD, REJECTD,
\* UNKNOWN, UNDELIV, delivrd, FAILED
StatChars ==
    ("DELIVRD" :> <<68, 69, 76, 73, 86, 82, 68>>)
    @@ ("REJECTD" :> <<82, 69, 74, 69, 67, 84, 68>>)
    @@ ("UNKNOWN" :> <<85, 78, 75, 78, 79, 87, 78>>)
    @@ ("UNDELIV" :> <<85, 78, 68, 69, 76, 73, 86>>)
    @@ ("delivrd" :> <<100, 101, 108, 105, 118, 114, 100>>)
    @@ ("FAILED" :> <<70, 65, 73, 76, 69, 68>>)

\* the id fields of the receipts, as characters: XYZ, abc123, the empty
\* id, and "X Z"
IdChars ==
    ("XYZ" :> <<88, 89, 90>>)
    @@ ("abc123" :> <<97, 98, 99, 49, 50, 51>>)
    @@ ("" :> <<>>)
    @@ ("X Z" :> <<88, 32, 90>>)

\* content values: None, a text that is no receipt, and receipts
\* "id:<id> sub:... stat:<stat> err:... text:..."
NoContent == [kind |-> "none", id |-> "", stat |-> ""]
OtherContent == [kind |-> "text", id |-> "", stat |-> ""]
Receipts == [kind : {"receipt"}, id : DOMAIN IdChars,
             stat : DOMAIN StatChars]

\* a search that takes any stat token of letters
RegexSearch_ignorecase(content) ==
    /\ content.kind = "receipt"
    /\ Len(IdChars[content.id]) <= 65
    /\ \A i \in 1..Len(IdChars[content.id]) : IdChars[content.id][i] # 32
    /\ Len(StatChars[content.stat]) = 7

\* DELIVERY_REPORT_REGEX.search(content or ''): the id group is at most 65
\* characters that are not white space, the stat group is seven characters
\* of A-Z
RegexSearch(content) ==
    /\ content.kind = "receipt"
    /\ Len(IdChars[content.id]) <= 65
    /\ \A i \in 1..Len(IdChars[content.id]) : IdChars[content.id][i] # 32
    /\ Len(StatChars[content.stat]) = 7
    /\ \A i \in 1..Len(StatChars[content.stat]) :
            StatChars[content.stat][i] \in 65..90

NoOpts == [receipted_message_id |-> NoId, message_state |-> NoState]
NoReport == [entry |-> "none", pdu_opts |-> NoOpts, content |-> NoContent]

\* the optional parameters of a deliver_sm PDU that concern receipts
ReportOpts ==
    [receipted_message_id : {NoId, SomeId(""), SomeId("abc123")},
     message_state : {NoState} \cup {SomeState(n) : n \in 0..9}]

\* transport.handle_delivery_report(receipted_message_id, delivery_status);
\* fired records whether the deferred it returned has fired
ReportCall(receipted_message_id, status) ==
    [receipted_message_id |-> receipted_message_id,
     delivery_status |-> status, fired |-> FALSE]

\* handle_delivery_report_pdu(pdu)
handle_delivery_report_pdu(pdu_opts) ==
    /\ report' = [entry |-> "pdu", pdu_opts |-> pdu_opts,
                  content |-> NoContent]
    /\ IF ParametersMissing(pdu_opts)
       THEN /\ verdict' = "false"
            /\ reports' = reports
       ELSE LET message_state == pdu_opts.message_state.value
                status == IF message_state \in DOMAIN STATUS_MAP
                          THEN STATUS_MAP[message_state] ELSE "UNKNOWN"
            IN  /\ reports' = Append(reports,
                        ReportCall(pdu_opts.receipted_message_id.value,
                                   delivery_status(status, status_mapping)))
                /\ verdict' = "waiting"
    /\ UNCHANGED <<xmlVars, callVars,
                   data_coding_overrides, multipartVars, inbound, ussdVars,
                   submitVars, status_mapping>>

\* handle_delivery_report_content(content)
handle_delivery_report_content(content) ==
    /\ report' = [entry |-> "content", pdu_opts |-> NoOpts,
                  content |-> content]
    /\ IF ~RegexSearch(content)
       THEN /\ verdict' = "false"
            /\ reports' = reports
       ELSE /\ reports' = Append(reports,
                    ReportCall(content.id,
                               delivery_status(content.stat, status_mapping)))
            /\ verdict' = "waiting"
    /\ UNCHANGED <<xmlVars, callVars,
                   data_coding_overrides, multipartVars, inbound, ussdVars,
                   submitVars, status_mapping>>

\* the deferred of transport.handle_delivery_report fires: the callback
\* added at line 101 or 118 turns its result into True
ReportCallbackFires ==
    /\ verdict = "waiting"
    /\ reports' = [reports EXCEPT ![Len(reports)].fired = TRUE]
    /\ verdict' = "true"
    /\ UNCHANGED <<xmlVars, callVars,
                   data_coding_overrides, multipartVars, inbound, ussdVars,
                   submitVars, status_mapping, report>>

\* the deferred of transport.handle_delivery_report fails: the failure
\* passes the callback by
ReportCallbackFails ==
    /\ verdict = "waiting"
    /\ verdict' = "failure"
    /\ UNCHANGED <<xmlVars, callVars,
                   data_coding_overrides, multipartVars, inbound, ussdVars,
                   submitVars, status_mapping, report, reports>>

\* no call of delivery_status has been made
NoStatusCall == [called |-> FALSE, state |-> "", status |-> ""]

\* message states passed to delivery_status: the statuses themselves, the
\* keys of the default mapping, tokens it does not hold, and the empty
\* token
StateTokens ==
    {"delivered", "failed", "pending"}
    \cup DOMAIN DELIVERY_REPORT_STATUS_MAPPING
    \cup {"UNDELIV", "delivrd", "FAILED", "Delivered", "ok", "9", ""}

\* a call of delivery_status(state) on the processor
DeliveryStatusCall(state) ==
    /\ mapped' = [called |-> TRUE, state |-> state,
                  status |-> delivery_status(state, status_mapping)]
    /\ UNCHANGED <<xmlVars,
                   dcs_call, sms_pdu, sms_result, data_coding_overrides,
                   multipartVars, inbound, ussdVars, submitVars, reportVars>>

(***************************************************************************)
(* handle_deliver_sm_multipart.  The coroutine suspends at redis.get and   *)
(* at redis.set or redis.delete; a handler is at                           *)
(*   "idle"      PDU not yet delivered                                     *)
(*   "get"       waiting for the reply of redis.get                        *)
(*   "set"       waiting for the reply of redis.set                        *)
(*   "delete"    waiting for the reply of redis.delete                     *)
(*   "dispatch"  handle_short_message_content called, waiting for it       *)
(*   "done"      returned (its locals are gone)                            *)
(*   "failed"    ended with the error a store operation raised             *)
(*   "cancelled" cancelled by its caller while waiting for the store       *)
(***************************************************************************)

HandlerIds == 1..MaxPdus

NoPdu == [part_number |-> 0, total_number |-> 0, short_message |-> <<>>,
          data_coding |-> 0]

\* the errors a store operation may raise
NoError == "none"
StoreErrors == {"ConnectionLost", "ResponseError"}

IdleHandler ==
    [pc |-> "idle", pdu |-> NoPdu, multi |-> <<>>, error |-> NoError]
DoneHandler ==
    [pc |-> "done", pdu |-> NoPdu, multi |-> <<>>, error |-> NoError]
CancelledHandler ==
    [pc |-> "cancelled", pdu |-> NoPdu, multi |-> <<>>, error |-> NoError]
\* a handler whose deferred failed with the error
FailedHandler(error) ==
    [pc |-> "failed", pdu |-> NoPdu, multi |-> <<>>, error |-> error]

NoOps == [gets |-> 0, writes |-> 0]

MultipartPdus ==
    [part_number : 1..total, total_number : {total},
     short_message : PartPayloads, data_coding : PartDataCodings]

Active(h) == handlers[h].pc \in {"get", "set", "delete", "dispatch"}

\* a test that takes the completed branch whatever get_completed returned
IsCompleted_always(completed) == TRUE

\* a test that takes the completed branch while parts are missing
IsCompleted_inverted(completed) == ~completed.completed

\* line 261: if completed
IsCompleted(completed) == completed.completed

\* handle_short_message_content for a reassembled SMS (lines 266-272)
SmsInbound(short_message) ==
    [source_addr |-> FromMsisdn, destination_addr |-> ToMsisdn,
     short_message |-> short_message, message_type |-> "absent",
     session_event |-> "absent", session_info |-> <<>>]

\* handle_multipart_pdu is called with a multipart PDU: the handler runs up
\* to the yield of redis.get (lines 256-258).  PDUs are delivered in the
\* order of the handler ids.
DeliverMultipart(h, pdu) ==
    /\ handlers[h].pc = "idle"
    /\ \A g \in HandlerIds : g < h => handlers[g].pc # "idle"
    /\ handlers' = [handlers EXCEPT ![h] = [pc |-> "get", pdu |-> pdu,
                                            multi |-> <<>>,
                                            error |-> NoError]]
    /\ store_ops' = [store_ops EXCEPT ![h].gets = @ + 1]
    /\ received' = [i \in DOMAIN received \cup {pdu.part_number} |->
                       IF i = pdu.part_number THEN pdu.short_message
                       ELSE received[i]]
    /\ UNCHANGED <<xmlVars, callVars,
                   data_coding_overrides, total, redis, inbound, ussdVars,
                   submitVars, reportVars, store_errors>>

\* redis.get replies: lines 342-345 and 259-262 / 274, up to the next yield
GetReply(h) ==
    /\ handlers[h].pc = "get"
    /\ LET multi == add_pdu(load_multipart_message(redis), handlers[h].pdu)
           completed == get_completed(multi, handlers[h].pdu.total_number)
       IN  handlers' = [handlers EXCEPT
                ![h].multi = multi,
                ![h].pc = IF IsCompleted(completed) THEN "delete" ELSE "set"]
    /\ store_ops' = [store_ops EXCEPT ![h].writes = @ + 1]
    /\ UNCHANGED <<xmlVars, callVars,
                   data_coding_overrides, total, redis, received, inbound,
                   ussdVars, submitVars, reportVars, store_errors>>

\* redis.set takes effect and replies: the handler returns (line 274)
SetReply(h) ==
    /\ handlers[h].pc = "set"
    /\ redis' = save_multipart_message(handlers[h].multi)
    /\ handlers' = [handlers EXCEPT ![h] = DoneHandler]
    /\ UNCHANGED <<xmlVars, callVars,
                   data_coding_overrides, total, received, inbound, ussdVars,
                   submitVars, reportVars, store_ops, store_errors>>

\* a redis.delete that leaves the key in the store
redis_delete_kept(store) == store

\* redis.delete(redis_key): the store without the key
redis_delete(store) == Absent

\* redis.delete takes effect and replies: the message is decoded and passed
\* to handle_short_message_content (lines 262-272)
DeleteReply(h) ==
    /\ handlers[h].pc = "delete"
    /\ redis' = redis_delete(redis)
    /\ LET completed == get_completed(handlers[h].multi,
                                      handlers[h].pdu.total_number)
           decoded_msg == dcs_decode(Str(completed.message),
                                     handlers[h].pdu.data_coding,
                                     DataCodingMap(data_coding_overrides))
       IN  inbound' = Append(inbound, SmsInbound(decoded_msg))
    /\ handlers' = [handlers EXCEPT ![h].pc = "dispatch"]
    /\ received' = <<>>
    /\ UNCHANGED <<xmlVars, callVars,
                   data_coding_overrides, total, ussdVars, submitVars,
                   reportVars, store_ops, store_errors>>

\* the transport's deferred fires: the handler returns
DispatchReply(h) ==
    /\ handlers[h].pc = "dispatch"
    /\ handlers' = [handlers EXCEPT ![h] = DoneHandler]
    /\ UNCHANGED <<xmlVars, callVars,
                   data_coding_overrides, total, redis, received, inbound,
                   ussdVars, submitVars, reportVars, store_ops, store_errors>>

\* the transport's deferred fails: the failure ends the handler (line 266
\* stands in no try statement)
DispatchFails(h) ==
    /\ handlers[h].pc = "dispatch"
    /\ handlers' = [handlers EXCEPT ![h] = FailedHandler("DispatchError")]
    /\ UNCHANGED <<xmlVars, callVars, data_coding_overrides, total, redis,
                   received, inbound, ussdVars, submitVars, reportVars,
                   store_ops, store_errors>>

\* the store as an operation that does not reply normally leaves it: the
\* operation the handler waits for has been sent, and has or has not taken
\* effect
StoreAfter(h, applied) ==
    IF ~applied \/ handlers[h].pc = "get" THEN redis
    ELSE IF handlers[h].pc = "set"
    THEN save_multipart_message(handlers[h].multi)
    ELSE Absent

\* a handler that issues the operation once more after an error
AfterStoreError_retry(h, error) == handlers[h]

\* the operation the handler waits for raises: no try statement encloses
\* the yields of lines 258, 263 and 274, the error ends the handler
AfterStoreError(h, error) == FailedHandler(error)

\* redis.get, redis.set or redis.delete fails
StoreFails(h, error, applied) ==
    /\ handlers[h].pc \in {"get", "set", "delete"}
    /\ redis' = StoreAfter(h, applied)
    /\ store_errors' = [store_errors EXCEPT ![h] = error]
    /\ handlers' = [handlers EXCEPT ![h] = AfterStoreError(h, error)]
    /\ store_ops' =
            IF handlers'[h].pc = "get"
            THEN [store_ops EXCEPT ![h].gets = @ + 1]
            ELSE IF handlers'[h].pc \in {"set", "delete"}
            THEN [store_ops EXCEPT ![h].writes = @ + 1]
            ELSE store_ops
    /\ UNCHANGED <<xmlVars, callVars, data_coding_overrides, total, received,
                   inbound, ussdVars, submitVars, reportVars>>

\* the caller cancels the handler's deferred while it waits for the store
Cancel(h, applied) ==
    /\ handlers[h].pc \in {"get", "set", "delete"}
    /\ redis' = StoreAfter(h, applied)
    /\ handlers' = [handlers EXCEPT ![h] = CancelledHandler]
    /\ UNCHANGED <<xmlVars, callVars, data_coding_overrides, total, received,
                   inbound, ussdVars, submitVars, reportVars, store_ops,
                   store_errors>>

(***************************************************************************)
(* Initial states: the processors as constructed, nothing handled yet.     *)
(***************************************************************************)
\* no multipart PDU of the key has been delivered
NoMultipart ==
    /\ redis = Absent
    /\ handlers = [h \in HandlerIds |-> IdleHandler]
    /\ store_ops = [h \in HandlerIds |-> NoOps]
    /\ store_errors = [h \in HandlerIds |-> NoError]
    /\ received = <<>>

\* a SubmitShortMessageProcessor with the given configuration; when
\* post_validate raises, the processor is not constructed
SubmitProcessor(config) ==
    /\ submit_config = config
    /\ message = NoMessage
    /\ submitted = <<>>
    /\ submit_result = IF post_validate(config) THEN "none"
                       ELSE "config_error"

\* a DeliveryReportProcessor with the given supplied mapping
ReportProcessor(supplied) ==
    /\ status_mapping = delivery_report_status_mapping(supplied)
    /\ report = NoReport
    /\ reports = <<>>
    /\ verdict = "none"

\* no call of delivery_status, dcs_decode or handle_short_message_pdu yet
NoCalls ==
    /\ mapped = NoStatusCall
    /\ dcs_call = NoDecodeCall
    /\ sms_pdu = NoSmsPdu
    /\ sms_result = "none"
    /\ xml_elem = NoElement
    /\ xml_handled = <<>>
    /\ xml_result = "none"

InitMultipart ==
    /\ data_coding_overrides \in OverrideConfigs
    /\ total \in 1..MaxTotal
    /\ NoMultipart
    /\ inbound = <<>>
    /\ ussd_pdu = NoUssdPdu
    /\ SubmitProcessor(DefaultSubmitConfig)
    /\ ReportProcessor(NoMapping)
    /\ NoCalls

\* PDUs of one connection: a PDU is handled after the previous one returned
DeliverInOrder(h) ==
    /\ \A g \in HandlerIds : ~Active(g)
    /\ \E pdu \in MultipartPdus : DeliverMultipart(h, pdu)

NextSeq ==
    \E h \in HandlerIds :
        \/ DeliverInOrder(h)
        \/ GetReply(h)
        \/ SetReply(h)
        \/ DeleteReply(h)
        \/ DispatchReply(h)

SpecSeq == InitMultipart /\ [][NextSeq]_vars


\* the fragments delivered over interleaving connections: those of an
\* ASCII message
RacingPdus == {pdu \in MultipartPdus : pdu.data_coding = 1}

\* the processor the interleaving connections share: default configuration
InitRacing ==
    /\ InitMultipart
    /\ data_coding_overrides = <<>>

\* PDUs of several connections: handlers interleave at the redis calls
DeliverConcurrently(h) ==
    /\ h <= MaxRacingPdus
    /\ Cardinality({g \in HandlerIds : Active(g)}) < MaxInFlight
    /\ \E pdu \in RacingPdus : DeliverMultipart(h, pdu)

Next ==
    \E h \in HandlerIds :
        \/ DeliverConcurrently(h)
        \/ GetReply(h)
        \/ SetReply(h)
        \/ DeleteReply(h)
        \/ DispatchReply(h)

Spec == InitRacing /\ [][Next]_vars

\* interleaving connections deliver every part of the message once: a part
\* not delivered before, in any order
DeliverOnce(h) ==
    /\ h <= total
    /\ \E pdu \in RacingPdus :
            /\ pdu.part_number \notin DOMAIN received
            /\ DeliverMultipart(h, pdu)

NextOnce ==
    \E h \in HandlerIds :
        \/ DeliverOnce(h)
        \/ GetReply(h)
        \/ SetReply(h)
        \/ DeleteReply(h)
        \/ DispatchReply(h)

SpecOnce == InitRacing /\ [][NextOnce]_vars

\* the buffer of a message whose parts 1..n have been stored
BufferedParts(n) ==
    [i \in 1..n |->
        detect_multipart([part_number |-> i, total_number |-> total,
                          short_message |-> <<10>>, data_coding |-> 1])]

\* a processor constructed over a store that holds all parts but the last
\* of a message of the key
InitBuffered ==
    /\ data_coding_overrides = <<>>
    /\ total \in 2..MaxTotal
    /\ redis = save_multipart_message(BufferedParts(total - 1))
    /\ handlers = [h \in HandlerIds |-> IdleHandler]
    /\ store_ops = [h \in HandlerIds |-> NoOps]
    /\ store_errors = [h \in HandlerIds |-> NoError]
    /\ received = [i \in 1..(total - 1) |-> <<10>>]
    /\ inbound = <<>>
    /\ ussd_pdu = NoUssdPdu
    /\ SubmitProcessor(DefaultSubmitConfig)
    /\ ReportProcessor(NoMapping)
    /\ NoCalls

\* interleaving connections deliver the remaining and retransmitted parts
SpecBuffered == InitBuffered /\ [][Next]_vars

\* the PDUs of one connection: a PDU is handled after the handler of the
\* previous one has ended
DeliverAfterEnd(h) ==
    /\ h <= MaxFaultyPdus
    /\ \A g \in HandlerIds : ~Active(g)
    /\ \E pdu \in RacingPdus : DeliverMultipart(h, pdu)

\* one connection, a store that may fail and a caller that may cancel
NextFaults ==
    \E h \in HandlerIds :
        \/ DeliverAfterEnd(h)
        \/ GetReply(h)
        \/ SetReply(h)
        \/ DeleteReply(h)
        \/ DispatchReply(h)
        \/ \E error \in StoreErrors, applied \in BOOLEAN :
                StoreFails(h, error, applied)
        \/ \E applied \in BOOLEAN : Cancel(h, applied)
        \/ DispatchFails(h)

SpecFaults == InitRacing /\ [][NextFaults]_vars

(***************************************************************************)
(* USSD: an inbound PDU, then the reply to it.                             *)
(***************************************************************************)
\* handle_ussd_pdu(pdu) for a PDU that detect_ussd accepts
handle_ussd_pdu(pdu) ==
    /\ ussd_pdu' = pdu
    /\ inbound' = Append(inbound,
            UssdInbound(pdu, DataCodingMap(data_coding_overrides)))
    /\ UNCHANGED <<xmlVars,
                   callVars, data_coding_overrides, multipartVars, submitVars,
                   reportVars>>

\* the reply to a dispatched USSD message: it carries the session_info of
\* the inbound message in its transport_metadata
UssdReplies ==
    IF inbound = <<>> THEN {}
    ELSE [to_addr : {AsciiAddr}, from_addr : {AsciiAddr},
          content : {<<72, 233>>}, message_id : {"message-id"},
          session_event : SessionEvents, transport_type : {"ussd"},
          transport_metadata :
             {SomeSessionInfo(inbound[Len(inbound)].session_info)}]

\* one PDU is handled in a behaviour
HandleUssdPdu ==
    /\ ussd_pdu = NoUssdPdu
    /\ \E pdu \in UssdPdus : handle_ussd_pdu(pdu)

\* one reply is sent in a behaviour
ReplyToUssd ==
    /\ submit_result = "none"
    /\ \E msg \in UssdReplies : handle_outbound_message(msg)

InitUssd ==
    /\ data_coding_overrides = <<>>
    /\ total = 1
    /\ NoMultipart
    /\ inbound = <<>>
    /\ ussd_pdu = NoUssdPdu
    /\ SubmitProcessor(DefaultSubmitConfig)
    /\ ReportProcessor(NoMapping)
    /\ NoCalls

NextUssd == HandleUssdPdu \/ ReplyToUssd

SpecUssd == InitUssd /\ [][NextUssd]_vars

(***************************************************************************)
(* Outbound USSD messages with any session_info.                           *)
(***************************************************************************)
\* one message is sent in a behaviour
SubmitUssd ==
    /\ submit_result = "none"
    /\ \E msg \in UssdMessages : handle_outbound_message(msg)

NextSubmitUssd == SubmitUssd

SpecSubmitUssd == InitUssd /\ [][NextSubmitUssd]_vars

(***************************************************************************)
(* Outbound messages: a configuration is loaded, and when it loads one     *)
(* message is handed to handle_outbound_message.                           *)
(***************************************************************************)
InitSubmit ==
    /\ data_coding_overrides = <<>>
    /\ total = 1
    /\ NoMultipart
    /\ inbound = <<>>
    /\ ussd_pdu = NoUssdPdu
    /\ \E config \in SubmitConfigs : SubmitProcessor(config)
    /\ ReportProcessor(NoMapping)
    /\ NoCalls

SubmitMessage ==
    /\ submit_result = "none"
    /\ \E msg \in OutboundMessages : handle_outbound_message(msg)

NextSubmit == SubmitMessage

SpecSubmit == InitSubmit /\ [][NextSubmit]_vars

(***************************************************************************)
(* ElementMaker.element: the element is made, then the children are        *)
(* handled one by one.                                                     *)
(***************************************************************************)
NextXml == StartElement \/ \E child \in XmlChildren : HandleChild(child)

SpecXml == InitUssd /\ [][NextXml]_vars

(***************************************************************************)
(* Delivery reports: one entry point is called, then the transport's       *)
(* deferred fires.                                                         *)
(***************************************************************************)
InitReports ==
    /\ data_coding_overrides = <<>>
    /\ total = 1
    /\ NoMultipart
    /\ inbound = <<>>
    /\ ussd_pdu = NoUssdPdu
    /\ SubmitProcessor(DefaultSubmitConfig)
    /\ \E supplied \in SuppliedMappings : ReportProcessor(supplied)
    /\ NoCalls

\* one entry point is called in a behaviour
HandleReportPdu ==
    /\ verdict = "none"
    /\ \E pdu_opts \in ReportOpts : handle_delivery_report_pdu(pdu_opts)

HandleReportContent ==
    /\ verdict = "none"
    /\ \E content \in {NoContent, OtherContent} \cup Receipts :
            handle_delivery_report_content(content)

NextReports ==
    \/ HandleReportPdu
    \/ HandleReportContent
    \/ ReportCallbackFires
    \/ ReportCallbackFails

SpecReports == InitReports /\ [][NextReports]_vars

\* delivery_status is called on a processor of any configuration
NextStatus == \E state \in StateTokens : DeliveryStatusCall(state)

SpecStatus == InitReports /\ [][NextStatus]_vars

(***************************************************************************)
(* dcs_decode is called on a processor with or without overrides.          *)
(***************************************************************************)
InitDecode ==
    /\ data_coding_overrides \in OverrideConfigs
    /\ total = 1
    /\ NoMultipart
    /\ inbound = <<>>
    /\ ussd_pdu = NoUssdPdu
    /\ SubmitProcessor(DefaultSubmitConfig)
    /\ ReportProcessor(NoMapping)
    /\ NoCalls

NextDecode ==
    \E obj \in DecodeObjects, data_coding \in DecodeDataCodings :
        DcsDecodeCall(obj, data_coding)

SpecDecode == InitDecode /\ [][NextDecode]_vars

(***************************************************************************)
(* A plain short message: handle_short_message_pdu is called, then the     *)
(* transport's deferred fires.                                             *)
(***************************************************************************)
HandleShortMessagePdu ==
    /\ sms_result = "none"
    /\ \E pdu \in SmsPdus : handle_short_message_pdu(pdu)

NextSms == HandleShortMessagePdu \/ SmsDispatchReply

SpecSms == InitDecode /\ [][NextSms]_vars

(***************************************************************************)
(* Multipart reassembly: properties.                                       *)
(***************************************************************************)
\* the buffer the next load_multipart_message of the key would yield
StoredBuffer == load_multipart_message(redis)

\* the payloads of a buffer, by index
Payloads(multi) == [i \in DOMAIN multi |-> multi[i].part_message]

\* the payloads 1..total of a buffer joined in ascending index order
JoinAscending(payloads) == Concat([i \in 1..total |-> payloads[i]])

Returned(h) == handlers[h].pc = "done"

\* C1: with PDUs handled one at a time, a handler issues the delete (and
\* with its reply dispatches) exactly when its PDU supplies the last index
\* of 1..total still missing; nothing is dispatched by any other step, and
\* the completing handler removes the key and dispatches exactly one
\* inbound message.
C1_DispatchOnLastMissingIndex ==
    [][\A h \in HandlerIds :
        /\ (handlers[h].pc = "get" /\ handlers'[h].pc # "get")
              => /\ inbound' = inbound
                 /\ (handlers'[h].pc = "delete")
                        <=> (DOMAIN received = 1..total)
                 /\ (handlers'[h].pc = "set")
                        <=> (DOMAIN received # 1..total)
        /\ (handlers[h].pc = "delete" /\ handlers'[h].pc # "delete")
              => /\ DOMAIN received = 1..total
                 /\ ~redis'.exists
                 /\ Len(inbound') = Len(inbound) + 1
                 /\ handlers'[h].pc = "dispatch"
        /\ (handlers[h].pc \in {"idle", "set", "dispatch"}
                /\ handlers'[h].pc # handlers[h].pc)
              => inbound' = inbound
      ]_vars

\* C1 witness: a two-part message completed by the third PDU, so one index
\* was delivered twice before the last missing index arrived.
C1_Witness ==
    /\ total = 2
    /\ Cardinality({h \in HandlerIds : Returned(h)}) = 3
    /\ \A h \in HandlerIds : ~Active(h)
    /\ Len(inbound) = 1
    /\ ~redis.exists

\* C2: the short_message dispatched on completion is the decoding of the
\* payloads last delivered for the indices 1..total, joined in ascending
\* index order, whatever the order in which they were delivered.
C2_PayloadInAscendingOrder ==
    [][\A h \in HandlerIds :
        (handlers[h].pc = "delete" /\ handlers'[h].pc = "dispatch")
          => /\ DOMAIN received = 1..total
             /\ inbound' = Append(inbound, SmsInbound(
                    dcs_decode(Str(JoinAscending(received)),
                               handlers[h].pdu.data_coding,
                               DataCodingMap(data_coding_overrides))))
      ]_vars

\* C2 witness: part 1 of a three-part message arrives last and completes
\* it; parts 2 and 3 carry different payloads.
C2_Witness ==
    \E h \in HandlerIds :
        /\ handlers[h].pc = "dispatch"
        /\ total = 3
        /\ handlers[h].pdu.part_number = 1
        /\ handlers[h].multi[2].part_message
              # handlers[h].multi[3].part_message
        /\ Len(inbound) = 1

\* C3: a handler that does not complete the message dispatches nothing and
\* its save leaves a value from which load_multipart_message yields exactly
\* the parts delivered so far, each with the payload that was delivered.
C3_SaveThenLoad ==
    [][\A h \in HandlerIds :
        (handlers[h].pc = "set" /\ handlers'[h].pc # "set")
          => /\ inbound' = inbound
             /\ redis'.exists
             /\ Payloads(load_multipart_message(redis')) = received
             /\ handlers[h].pdu.part_number \in DOMAIN received
             /\ DOMAIN received # 1..total
      ]_vars

\* C3 witness: two parts of a three-part message are buffered, one of them
\* with an octet above 127, and nothing was dispatched.
C3_Witness ==
    /\ total = 3
    /\ \A h \in HandlerIds : ~Active(h)
    /\ inbound = <<>>
    /\ redis.exists
    /\ Cardinality(DOMAIN StoredBuffer) = 2
    /\ \E i \in DOMAIN StoredBuffer :
            StoredBuffer[i].part_message = <<233, 65>>

\* C4: under any interleaving of the handlers, an inbound message is
\* dispatched only by a handler whose buffer holds every index 1..total,
\* and it carries that buffer's payloads in ascending order; the value in
\* the store never holds every index, so a key that lost a fragment stays
\* incomplete.
C4_DispatchOnlyFromCompleteBuffer ==
    [][/\ inbound' # inbound
          => \E h \in HandlerIds :
                /\ handlers[h].pc = "delete"
                /\ DOMAIN handlers[h].multi = 1..total
                /\ inbound' = Append(inbound, SmsInbound(
                       dcs_decode(
                           Str(JoinAscending(Payloads(handlers[h].multi))),
                           handlers[h].pdu.data_coding,
                           DataCodingMap(data_coding_overrides))))
       /\ redis'.exists => DOMAIN load_multipart_message(redis') # 1..total
      ]_vars

\* C4 witness: every index of the key was delivered and every handler has
\* returned, but a save overwrote another one: the stored buffer lacks an
\* index and nothing was dispatched.
C4_Witness ==
    /\ \A h \in HandlerIds : ~Active(h)
    /\ DOMAIN received = 1..total
    /\ inbound = <<>>
    /\ redis.exists
    /\ DOMAIN StoredBuffer # 1..total

(***************************************************************************)
(* USSD: properties.                                                       *)
(***************************************************************************)
\* the hex digits whose low bit is 1: 1 3 5 7 9 b d f
OddHexChars == {49, 51, 53, 55, 57, 98, 100, 102}

UssdHandled == ussd_pdu # NoUssdPdu

\* C5: a USSD PDU (one carrying ussd_service_op and its_session_info) is
\* dispatched exactly once, with message_type ussd and session_event close
\* when the low bit of its_session_info is 1, otherwise new for service op
\* 01, continue for 02 and 12, close for 11 and any other value.
C5_SessionEvent ==
    UssdHandled =>
        /\ Len(inbound) = 1
        /\ inbound[1].message_type = "ussd"
        /\ inbound[1].session_event =
              IF ussd_pdu.its_session_info[4] \in OddHexChars THEN "close"
              ELSE CASE ussd_pdu.ussd_service_op = "01" -> "new"
                     [] ussd_pdu.ussd_service_op \in {"02", "12"}
                            -> "continue"
                     [] OTHER -> "close"

\* C5 witness: a PSSR request (01) whose end-session bit is set was
\* dispatched as close.
C5_Witness ==
    /\ UssdHandled
    /\ ussd_pdu.ussd_service_op = "01"
    /\ ussd_pdu.its_session_info[4] \in OddHexChars
    /\ Len(inbound) = 1
    /\ inbound[1].session_event = "close"

\* C6: the dispatched session_info is four hex characters whose value has
\* low bit 0 and the same high 15 bits as its_session_info.
C6_SessionInfoMasked ==
    UssdHandled =>
        LET session_info == inbound[1].session_info
        IN  /\ Len(session_info) = 4
            /\ \A i \in 1..4 : session_info[i] \in HexChars
            /\ ParseHex(session_info) % 2 = 0
            /\ ParseHex(session_info) \div 2
                  = ParseHex(ussd_pdu.its_session_info) \div 2

\* C6 witness: its_session_info ffff was dispatched as fffe.
C6_Witness ==
    /\ UssdHandled
    /\ ussd_pdu.its_session_info = <<102, 102, 102, 102>>
    /\ inbound[1].session_info = <<102, 102, 102, 101>>

\* C7: when the dispatched session_info comes back in the reply's
\* transport_metadata and the reply's session_event is not close, the
\* its_session_info of the reply has the high 15 bits of the inbound one.
C7_SessionInfoRoundTrip ==
    (UssdHandled /\ submit_result = "returned"
        /\ message.session_event # "close")
      => /\ Len(submitted) = 1
         /\ "its_session_info" \in DOMAIN submitted[1].optional_parameters
         /\ BitAnd(ParseHex(
                submitted[1].optional_parameters["its_session_info"]), 65534)
              = BitAnd(ParseHex(ussd_pdu.its_session_info), 65534)

\* C7 witness: an inbound its_session_info with the end-session bit and a
\* non-zero first octet, answered with a reply that resumes the session.
C7_Witness ==
    /\ UssdHandled
    /\ ussd_pdu.its_session_info = <<97, 53, 99, 51>>
    /\ submit_result = "returned"
    /\ message.session_event = "resume"

(***************************************************************************)
(* Outbound USSD: properties.                                              *)
(***************************************************************************)
\* the session_info handle_outbound_message starts from
MessageSessionInfo ==
    IF message.transport_metadata.present
    THEN message.transport_metadata.value
    ELSE <<48, 48, 48, 48>>

EmittedSessionInfo == submitted[1].optional_parameters["its_session_info"]

\* the emitted value is four hex characters and has the high 15 bits of
\* the session_info of the message
IdentityBitsKept ==
    /\ Len(EmittedSessionInfo) = 4
    /\ \A i \in 1..4 : EmittedSessionInfo[i] \in HexChars
    /\ ParseHex(EmittedSessionInfo) \div 2
          = ParseHex(MessageSessionInfo) \div 2

\* C8 as stated: for every two-octet session_info and every session_event
\* the emitted its_session_info is four hex characters that differ from
\* session_info at most in the least-significant bit.
C8_AnySessionInfo ==
    (submit_result = "returned" /\ message.transport_type = "ussd")
      => IdentityBitsKept

\* C8 amended: the same, for every session_info whose least-significant
\* bit is 0 and every session_event, and for every session_info when the
\* session_event is not close.
C8_EvenSessionInfoOrContinue ==
    (/\ submit_result = "returned"
     /\ message.transport_type = "ussd"
     /\ \/ MessageSessionInfo[4] \notin OddHexChars
        \/ message.session_event # "close")
      => IdentityBitsKept

\* C8 witness: session_info fffe sent with session_event close is emitted
\* as ffff.
C8_Witness ==
    /\ submit_result = "returned"
    /\ message.session_event = "close"
    /\ MessageSessionInfo = <<102, 102, 102, 101>>
    /\ EmittedSessionInfo = <<102, 102, 102, 102>>

(***************************************************************************)
(* Delivery reports: properties.                                           *)
(***************************************************************************)
\* C9: handle_delivery_report_pdu returns False without a callback when
\* receipted_message_id or message_state is absent; when both are present
\* it makes exactly one callback with that receipted_message_id, and its
\* result is True only once that callback's deferred has fired.
C9_PduReport ==
    report.entry = "pdu" =>
        LET id == report.pdu_opts.receipted_message_id
            state == report.pdu_opts.message_state
        IN  /\ (~id.present \/ ~state.present)
                  => (verdict = "false" /\ reports = <<>>)
            /\ (id.present /\ state.present)
                  => /\ verdict \in {"waiting", "true", "failure"}
                     /\ Len(reports) = 1
                     /\ reports[1].receipted_message_id = id.value
                     /\ (verdict = "true") => reports[1].fired

\* C9 witness: an empty receipted_message_id and message_state 0 are
\* present: the callback was made and has fired, the result is True.
C9_Witness ==
    /\ report.entry = "pdu"
    /\ report.pdu_opts.receipted_message_id = SomeId("")
    /\ report.pdu_opts.message_state = SomeState(0)
    /\ Len(reports) = 1
    /\ verdict = "true"

\* C10 as stated: whatever mapping the configuration supplies, every
\* delivery_status passed to handle_delivery_report is delivered, failed or
\* pending.
C10_StatusIsCanonical ==
    \A i \in 1..Len(reports) :
        reports[i].delivery_status \in {"delivered", "failed", "pending"}

\* the statuses the transport knows
CanonicalStatuses == {"delivered", "failed", "pending"}

HandledWith(status) ==
    /\ Len(reports) = 1
    /\ reports[1].delivery_status = status
    /\ verdict # "false"
    /\ reports[1].fired => verdict = "true"

\* C12: with the default mapping, handle_delivery_report_pdu with a
\* message_state outside 1..8 reports pending, and
\* handle_delivery_report_content with a matched stat token the mapping
\* does not hold reports pending; neither returns False.
C12_UnknownStateIsPending ==
    status_mapping = DELIVERY_REPORT_STATUS_MAPPING =>
        /\ (/\ report.entry = "pdu"
            /\ report.pdu_opts.receipted_message_id.present
            /\ report.pdu_opts.message_state.present
            /\ report.pdu_opts.message_state.value \notin 1..8)
                => HandledWith("pending")
        /\ (/\ report.entry = "content"
            /\ report.content.kind = "receipt"
            /\ report.content.id \in {"XYZ", "abc123", ""}
            /\ report.content.stat \in {"UNDELIV"})
                => HandledWith("pending")

\* C12 witness: a receipt with stat UNDELIV, which the default mapping does
\* not hold, was reported as pending and the result is True.
C12_Witness ==
    /\ status_mapping = DELIVERY_REPORT_STATUS_MAPPING
    /\ report.entry = "content"
    /\ report.content.stat = "UNDELIV"
    /\ Len(reports) = 1
    /\ reports[1].delivery_status = "pending"
    /\ verdict = "true"

\* the receipts the default regex matches: an id without white space and a
\* stat of seven capitals
WellFormedReceipt(content) ==
    /\ content.kind = "receipt"
    /\ content.id \in {"XYZ", "abc123", ""}
    /\ content.stat \in {"DELIVRD", "REJECTD", "UNKNOWN", "UNDELIV"}

\* C13: handle_delivery_report_content returns False without a callback
\* when the regex does not match, absent content included; when it matches
\* it makes exactly one callback with the id group and the status the
\* mapping gives the stat group (pending when it gives none), and its
\* result is True once that callback's deferred has fired.
C13_ContentReport ==
    report.entry = "content" =>
        IF WellFormedReceipt(report.content)
        THEN /\ HandledWith(IF report.content.stat \in DOMAIN status_mapping
                            THEN status_mapping[report.content.stat]
                            ELSE "pending")
             /\ reports[1].receipted_message_id = report.content.id
             /\ (verdict = "true") => reports[1].fired
        ELSE verdict = "false" /\ reports = <<>>

\* C13 witness: the receipt of XYZ with stat DELIVRD was reported as
\* delivered under the default mapping and the result is True.
C13_Witness ==
    /\ report.entry = "content"
    /\ report.content = [kind |-> "receipt", id |-> "XYZ", stat |-> "DELIVRD"]
    /\ Len(reports) = 1
    /\ reports[1].receipted_message_id = "XYZ"
    /\ reports[1].delivery_status = "delivered"
    /\ verdict = "true"

(***************************************************************************)
(* dcs_decode and handle_short_message_pdu: properties.                    *)
(***************************************************************************)
\* the codec fails on the octets: an octet above 127 for ascii, an odd
\* number of octets for utf-16be
CharsetFailure(bytes, codec_name) ==
    \/ codec_name = "ascii" /\ \E i \in 1..Len(bytes) : bytes[i] > 127
    \/ codec_name = "utf-16be" /\ Len(bytes) % 2 = 1

\* C14: dcs_decode never raises, and its result is the decoded text or
\* exactly its input: the input comes back unchanged when data_coding has
\* no entry in the data coding map, when the input is None, and when the
\* codec fails on the octets.
C14_DecodeOrInput ==
    dcs_call.called =>
        LET obj == dcs_call.obj
            result == dcs_call.result
            data_coding_map == DataCodingMap(data_coding_overrides)
            mapped_coding == dcs_call.data_coding \in DOMAIN data_coding_map
        IN  /\ result.kind # "raised"
            /\ result = obj \/ result.kind = "unicode"
            /\ ~mapped_coding => result = obj
            /\ obj.kind = "none" => result = obj
            /\ (/\ mapped_coding
                /\ obj.kind = "str"
                /\ CharsetFailure(obj.data,
                        data_coding_map[dcs_call.data_coding]))
                    => result = obj
            /\ (/\ mapped_coding
                /\ obj.kind = "str"
                /\ ~CharsetFailure(obj.data,
                        data_coding_map[dcs_call.data_coding]))
                    => result.kind = "unicode"

\* C14 witness: the octets e9 41 with data_coding 1 (ascii) fail to decode
\* and come back as they were.
C14_Witness ==
    /\ dcs_call.called
    /\ dcs_call.obj = Str(<<233, 65>>)
    /\ dcs_call.data_coding = 1
    /\ dcs_call.result = Str(<<233, 65>>)

\* C15 as stated: for every PDU handle_short_message_pdu dispatches exactly
\* one inbound message and returns its deferred, also when dcs_decode gave
\* back the raw octets; it never fails the PDU.
C15_AlwaysDispatched ==
    sms_pdu.present =>
        /\ Len(inbound) = 1
        /\ sms_result \in {"waiting", "true"}

(***************************************************************************)
(* SubmitShortMessageProcessor: properties.                                *)
(***************************************************************************)
\* handle_outbound_message has been called with a message
Submitting == message # NoMessage

AsciiOnly(chars) == \A i \in 1..Len(chars) : chars[i] \in 0..127

\* the primitive the long-message flags name
PolicyPrimitive ==
    CASE submit_config.send_long_messages -> "submit_sm_long"
      [] submit_config.send_multipart_sar -> "submit_csm_sar"
      [] submit_config.send_multipart_udh -> "submit_csm_udh"
      [] OTHER -> "submit_sm"

\* C16 as stated: under every loaded configuration, for every message with
\* ASCII addresses handle_outbound_message calls exactly one protocol
\* primitive, once, the one the flags name, with the message id and
\* data_coding = submit_sm_data_coding.
C16_OnePrimitivePerMessage ==
    (/\ Submitting
     /\ AsciiOnly(message.to_addr)
     /\ AsciiOnly(message.from_addr))
        => /\ Len(submitted) = 1
           /\ submitted[1].primitive = PolicyPrimitive
           /\ submitted[1].vumi_message_id = message.message_id
           /\ submitted[1].data_coding = submit_config.submit_sm_data_coding

\* more than one long-message flag is set
FlagsConflict(config) ==
    \/ config.send_long_messages /\ config.send_multipart_sar
    \/ config.send_long_messages /\ config.send_multipart_udh
    \/ config.send_multipart_sar /\ config.send_multipart_udh

\* C17: loading a configuration raises a configuration error exactly when
\* two or more of send_long_messages, send_multipart_sar and
\* send_multipart_udh are true; a processor that handles a message has no
\* two of them true.
C17_FlagsExclusive ==
    /\ (submit_result = "config_error") <=> FlagsConflict(submit_config)
    /\ Submitting => ~FlagsConflict(submit_config)

\* C17 witness: a configuration with send_multipart_udh alone loaded, and
\* its processor sent a message with submit_csm_udh.
C17_Witness ==
    /\ submit_config.send_multipart_udh
    /\ ~submit_config.send_multipart_sar
    /\ ~submit_config.send_long_messages
    /\ Submitting
    /\ Len(submitted) = 1
    /\ submitted[1].primitive = "submit_csm_udh"

\* C18: when to_addr or from_addr holds a non-ASCII character,
\* handle_outbound_message fails and calls no protocol primitive, under
\* every long-message configuration.
C18_NonAsciiAddressFails ==
    (/\ Submitting
     /\ ~(AsciiOnly(message.to_addr) /\ AsciiOnly(message.from_addr)))
        => /\ submit_result = "error"
           /\ submitted = <<>>

\* C18 witness: under send_multipart_sar a message with an ASCII to_addr
\* and a non-ASCII from_addr failed without a protocol call.
C18_Witness ==
    /\ submit_config.send_multipart_sar
    /\ Submitting
    /\ message.to_addr = AsciiAddr
    /\ message.from_addr = NonAsciiAddr
    /\ submit_result = "error"
    /\ submitted = <<>>

(***************************************************************************)
(* handle_deliver_sm_multipart with a failing store and a cancelling       *)
(* caller: properties.                                                     *)
(***************************************************************************)
\* C19: when a store get, set or delete of handle_deliver_sm_multipart
\* fails, the handler fails with that error in the same step without a
\* dispatch, and a failed handler does nothing more; no handler issues more
\* than one get, nor more than one set or delete.
C19_StoreErrorEndsHandler ==
    [][\A h \in HandlerIds :
            /\ store_ops'[h].gets <= 1
            /\ store_ops'[h].writes <= 1
            /\ store_errors'[h] # store_errors[h]
                    => /\ handlers'[h].pc = "failed"
                       /\ handlers'[h].error = store_errors'[h]
                       /\ inbound' = inbound
            /\ handlers[h].pc = "failed"
                    => /\ handlers'[h] = handlers[h]
                       /\ store_ops'[h] = store_ops[h]]_vars

\* C19 witness: the delete of a completed message failed; the handler has
\* failed with the store's error after one get and one delete, nothing was
\* dispatched.
C19_Witness ==
    \E h \in HandlerIds :
        /\ handlers[h].pc = "failed"
        /\ handlers[h].error = "ConnectionLost"
        /\ store_errors[h] = "ConnectionLost"
        /\ store_ops[h] = [gets |-> 1, writes |-> 1]
        /\ redis = Absent
        /\ inbound = <<>>

\* C20 as stated, for PDUs handled one after the other (the buffer a
\* handler found when it started is the buffer at its cancellation): the
\* step that cancels a handler waiting for the store drops no index from
\* the stored buffer unless it dispatches the message.
C20_CancelDropsNothing ==
    [][\A h \in HandlerIds :
            (/\ handlers[h].pc \in {"get", "set", "delete"}
             /\ handlers'[h].pc = "cancelled")
                => \/ DOMAIN StoredBuffer \subseteq DOMAIN StoredBuffer'
                   \/ Len(inbound') > Len(inbound)]_vars

(***************************************************************************)
(* handle_deliver_sm_multipart under interleaving handlers: properties.    *)
(***************************************************************************)
\* C21 as stated: once a completed message of the key has been dispatched
\* (its buffer deleted), a handler that replies from redis.set puts into the
\* store no part but its own: the parts of a buffer loaded before the
\* deletion do not reappear.
C21_NoStaleWriteBack ==
    [][\A h \in HandlerIds :
            (/\ handlers[h].pc = "set"
             /\ handlers'[h].pc = "done"
             /\ inbound # <<>>)
                => DOMAIN StoredBuffer' \subseteq
                        DOMAIN StoredBuffer
                        \cup {handlers[h].pdu.part_number}]_vars

(***************************************************************************)
(* handle_outbound_message: the optional parameters.                       *)
(***************************************************************************)
\* session_info plus 1 on close, plus 0 otherwise, for the session_info
\* values of the outbound messages: none (0000) and 00a2
ExpectedSessionInfo ==
    IF message.transport_metadata.present
    THEN IF message.session_event = "close" THEN <<48, 48, 97, 51>>
         ELSE <<48, 48, 97, 50>>
    ELSE IF message.session_event = "close" THEN <<48, 48, 48, 49>>
         ELSE <<48, 48, 48, 48>>

\* C22: the optional_parameters handle_outbound_message passes to the
\* protocol primitive are empty for every transport type but ussd, whatever
\* session_event and the session_info hold; for ussd they are exactly
\* ussd_service_op = '02' and its_session_info = session_info (0000 when
\* absent) plus 1 on close and plus 0 otherwise.
C22_UssdParametersOnlyForUssd ==
    \A i \in 1..Len(submitted) :
        LET optional_parameters == submitted[i].optional_parameters
        IN  IF message.transport_type = "ussd"
            THEN /\ DOMAIN optional_parameters
                        = {"ussd_service_op", "its_session_info"}
                 /\ optional_parameters["ussd_service_op"] = <<48, 50>>
                 /\ optional_parameters["its_session_info"]
                        = ExpectedSessionInfo
            ELSE DOMAIN optional_parameters = {}

\* C22 witness: an SMS whose session_event is close and which carries a
\* session_info was passed to the primitive without optional parameters.
C22_Witness ==
    /\ Len(submitted) = 1
    /\ message.transport_type = "sms"
    /\ message.session_event = "close"
    /\ message.transport_metadata.present
    /\ DOMAIN submitted[1].optional_parameters = {}

(***************************************************************************)
(* ElementMaker: properties.                                               *)
(***************************************************************************)
\* the tags of the elements of a list, in order
ElementTags(items) ==
    LET IsElement(item) == item.kind = "element"
        Tag(i) == SelectSeq(items, IsElement)[i].tag
    IN  [i \in 1..Len(SelectSeq(items, IsElement)) |-> Tag(i)]

\* C23 as stated: the children handled so far never raise, text after a
\* child element leaves the number and the identity of the children
\* unchanged, so the element children of the built element are the element
\* children passed, in order.
C23_ElementChildrenKept ==
    /\ xml_result # "error"
    /\ ElementTags(xml_elem.children) = ElementTags(xml_handled)

C25_AtMostOneDispatch ==
    /\ Len(inbound) <= 1
    /\ Cardinality({h \in HandlerIds : handlers[h].pc = "delete"})
            + Len(inbound) <= 1

\* C25 witness: the three parts of a message were delivered once each, all
\* three handlers have returned and the message was dispatched.
C25_Witness ==
    /\ total = 3
    /\ \A h \in 1..3 : handlers[h].pc = "done"
    /\ Len(inbound) = 1

====
